---- MODULE Spec2Model ----
(***************************************************************************)
(* Handle inference of organize_by_handle.py (infer_handle and the         *)
(* functions it calls) and the grouping/moving done by organize.           *)
(*                                                                         *)
(* A Python str is modelled as a sequence of one-character strings.  The   *)
(* model's characters are ASCII: letters a-z and A-Z, digits 0-9, the      *)
(* punctuation the regular expressions name, space, and "!" standing for   *)
(* any decoration character.  No model string holds a newline, so "." and  *)
(* "$" of the regular expressions behave as "any character" and "end of    *)
(* string".                                                                *)
(***************************************************************************)
EXTENDS Integers, Sequences, FiniteSets, TLC

VARIABLES
    stem,            \* infer_handle: the stem argument
    strict_start,    \* infer_handle: keyword argument
    allow_trailing,  \* infer_handle: keyword argument
    pc,              \* position inside infer_handle / take_leading_handle_token_preserve
    token,           \* the working token (candidate) of the current stage
    result,          \* the value infer_handle returns (NONE until it returns a handle)
    stage,           \* the stage that supplied the result
    tried,           \* the stages attempted so far, in order
    pass,            \* 1: inference of an input stem, 2: inference of the returned handle
    first,           \* the handle returned by pass 1 (NONE during pass 1)
    root,            \* organize: the files that are entries of the root directory
    folders,         \* organize: the subfolders of root, folder name -> set of files in it
    created,         \* organize: the names of the folders this run created
    opts,            \* organize: min_count, include_singletons, dry_run, log_path
    opc,             \* organize: position inside organize
    files,           \* organize: the scanned files, in sorted order
    todo,            \* organize: the scanned files not yet given to infer_handle
    groups,          \* organize: the dict groups, in insertion order
    ungrouped,       \* organize: the list ungrouped
    selected,        \* organize: the dict selected, in insertion order
    planned,         \* organize: the planned moves not yet executed
    moved,           \* organize: the moves executed, <<file, folder name, final file>>
    log              \* organize: the folder names written to the CSV log, or NONE

vars == <<stem, strict_start, allow_trailing, pc, token, result, stage, tried, pass,
          first, root, folders, created, opts, opc, files, todo, groups, ungrouped,
          selected, planned, moved, log>>

inferVars == <<stem, strict_start, allow_trailing, pc, token, result, stage, tried,
               pass, first>>

orgVars == <<root, folders, created, opts, opc, files, todo, groups, ungrouped,
             selected, planned, moved, log>>

(***************************************************************************)
(* Characters and str methods                                              *)
(***************************************************************************)
LowerSeq ==
    <<"a","b","c","d","e","f","g","h","i","j","k","l","m",
      "n","o","p","q","r","s","t","u","v","w","x","y","z">>

UpperSeq ==
    <<"A","B","C","D","E","F","G","H","I","J","K","L","M",
      "N","O","P","Q","R","S","T","U","V","W","X","Y","Z">>

Range(f) == {f[i] : i \in DOMAIN f}

SetMin(S) == CHOOSE x \in S : \A y \in S : x <= y

SetMax(S) == CHOOSE x \in S : \A y \in S : x >= y

Letters == Range(LowerSeq) \cup Range(UpperSeq)

DigitChars == {"0","1","2","3","4","5","6","7","8","9"}

\* str.isalpha of one character
IsAlpha(c) == c \in Letters

\* str.isdigit of one character, and the class \d
IsDigit(c) == c \in DigitChars

\* the class \w
IsWord(c) == IsAlpha(c) \/ IsDigit(c) \/ c = "_"

WhitespaceChars == {" ", "\t"}

\* the class \s, and what str.strip() removes
IsSpace(c) == c \in WhitespaceChars

LowerOf ==
    [c \in Range(UpperSeq) |-> LowerSeq[CHOOSE i \in DOMAIN UpperSeq : UpperSeq[i] = c]]

\* str.lower of one character
LowerChar(c) == IF c \in DOMAIN LowerOf THEN LowerOf[c] ELSE c

\* str.lower
Lower(s) == [i \in 1..Len(s) |-> LowerChar(s[i])]

\* str.strip(chars)
Strip(s, chars) ==
    LET keep == {i \in 1..Len(s) : s[i] \notin chars}
    IN  IF keep = {} THEN <<>> ELSE SubSeq(s, SetMin(keep), SetMax(keep))

\* the argument of strip('._- ')
BoundaryChars == {".", "_", "-", " "}

\* the argument of strip('._')
DotUnderscore == {".", "_"}

\* str.startswith
StartsWith(s, p) == Len(p) <= Len(s) /\ SubSeq(s, 1, Len(p)) = p

\* s[p], s[p+1], ... are n digits (all inside s)
DigitsAt(s, p, n) == p + n - 1 <= Len(s) /\ \A i \in p..(p + n - 1) : IsDigit(s[i])

\* the positions e such that s[p..e-1] is a run of at least lo digits
DigitRunEnds(s, p, lo) ==
    {e \in (p + lo)..(Len(s) + 1) : \A i \in p..(e - 1) : IsDigit(s[i])}

\* Python's None: a one-element sequence whose element is no character, so it differs
\* from every str of the model
NONE == <<"None">>

(***************************************************************************)
(* Regular expressions                                                     *)
(***************************************************************************)
IsDateSep(c) == c \in {"-", ".", "_"}

\* the positions e such that s[p..e-1] matches  \d{4}[-._]?\d{2}[-._]?\d{2}
\* (with year20: 20\d{2}[-._]?\d{2}[-._]?\d{2})
DateEnds(s, p, year20) ==
    {e \in (p + 8)..(p + 10) :
        /\ e <= Len(s) + 1
        /\ \E a \in {0, 1}, b \in {0, 1} :
            /\ e = p + 8 + a + b
            /\ DigitsAt(s, p, 4)
            /\ (year20 => s[p] = "2" /\ s[p + 1] = "0")
            /\ (a = 1 => IsDateSep(s[p + 4]))
            /\ DigitsAt(s, p + 4 + a, 2)
            /\ (b = 1 => IsDateSep(s[p + 6 + a]))
            /\ DigitsAt(s, p + 6 + a + b, 2)}

\* [_\-\.\s]
IsTailSep(c) == c \in {"_", "-", "."} \/ IsSpace(c)

\* [\w\-\.]
IsJunk(c) == IsWord(c) \/ c \in {"-", "."}

\* the positions e such that s[p..e-1] matches one of the four tail patterns
TailPatternEnds(s, p) ==
    DateEnds(s, p, TRUE)
    \cup DigitRunEnds(s, p, 9)
    \cup {e \in (p + 2)..(p + 5) :
            /\ e <= Len(s) + 1
            /\ s[p] = "_"
            /\ \A i \in (p + 1)..(e - 1) : IsDigit(s[i])}
    \cup DigitRunEnds(s, p, 5)

\* s[k..] matches  [_\-\.\s]?(?:tail patterns)[\w\-\.]*$
TailMatchesFrom(s, k) ==
    \E p \in {k} \cup (IF k <= Len(s) /\ IsTailSep(s[k]) THEN {k + 1} ELSE {}) :
        \E e \in TailPatternEnds(s, p) :
            \A i \in e..Len(s) : IsJunk(s[i])

\* RE_NUMERIC_DATE_TAIL.match(s): group 1 of the match, NONE when there is no match.
\* Group 1 is non-greedy: the shortest prefix after which the rest is a tail.
RE_NUMERIC_DATE_TAIL(s) ==
    LET starts == {k \in 1..(Len(s) + 1) : TailMatchesFrom(s, k)}
    IN  IF starts = {} THEN NONE ELSE SubSeq(s, 1, SetMin(starts) - 1)

\* [\w._]
IsHandleChar(c) == IsWord(c) \/ c = "."

\* the length of the run of [\w._] characters that starts at s[p], at most 30
\* (the quantifier {3,30} takes no more)
HandleRun(s, p) ==
    LET stop == {i \in p..Len(s) : ~IsHandleChar(s[i])}
        run  == IF stop = {} THEN Len(s) - p + 1 ELSE SetMin(stop) - p
    IN  IF run > 30 THEN 30 ELSE run

\* RE_AT_ANY.search(s): group 1 of the leftmost match, NONE when there is no match
RE_AT_ANY(s) ==
    LET ats == {i \in 1..Len(s) : s[i] = "@" /\ HandleRun(s, i + 1) >= 3}
    IN  IF ats = {} THEN NONE
        ELSE LET i == SetMin(ats) IN SubSeq(s, i + 1, i + HandleRun(s, i + 1))

\* [\s\-\._\(\)\[\]\#]
IsNoise(c) == IsSpace(c) \/ c \in {"-", ".", "_", "(", ")", "[", "]", "#"}

\* mutant of TrailingLookahead: the lookahead is left out
TrailingLookaheadNone(s, q) == TRUE

\* the lookahead of RE_TRAILING at position q:
\* [\s\-\._\(\)\[\]\#]*(?:\d{6,}|\d{4}[-._]?\d{2}[-._]?\d{2})?$
TrailingLookahead(s, q) ==
    \E r \in q..(Len(s) + 1) :
        /\ \A j \in q..(r - 1) : IsNoise(s[j])
        /\ \/ r = Len(s) + 1
           \/ (Len(s) + 1) \in DigitRunEnds(s, r, 6)
           \/ (Len(s) + 1) \in DateEnds(s, r, FALSE)

\* the lengths n (3..30) of a match of RE_TRAILING that starts at s[i]
TrailingLens(s, i) ==
    {n \in 3..HandleRun(s, i) : TrailingLookahead(s, i + n)}

\* RE_TRAILING.search(s): group 1 of the leftmost match (the longest one at that
\* start, the quantifier being greedy), NONE when there is no match
RE_TRAILING(s) ==
    LET startsAt == {i \in 1..Len(s) : TrailingLens(s, i) # {}}
    IN  IF startsAt = {} THEN NONE
        ELSE LET i == SetMin(startsAt)
             IN  SubSeq(s, i, i + SetMax(TrailingLens(s, i)) - 1)

(***************************************************************************)
(* Heuristics                                                              *)
(***************************************************************************)
CAMERA_PREFIXES ==
    { <<"i","m","g">>, <<"d","s","c">>, <<"p","x","l">>, <<"v","i","d">>,
      <<"p","h","o","t","o">>,
      <<"s","c","r","e","e","n","s","h","o","t">>,
      <<"w","h","a","t","s","a","p","p">>,
      <<"s","i","g","n","a","l">>,
      <<"s","n","a","p","c","h","a","t">>,
      <<"i","n","s","t","a","g","r","a","m">>,
      <<"i","n","s","t","a">>,
      <<"f","b">>,
      <<"t","e","l","e","g","r","a","m">> }

has_letter(s) == \E i \in 1..Len(s) : IsAlpha(s[i])

looks_like_camera_prefix(tok) ==
    LET t == Lower(Strip(tok, DotUnderscore))
    IN  \E p \in CAMERA_PREFIXES :
            \/ t = p
            \/ StartsWith(t, p \o <<"_">>)
            \/ StartsWith(t, p \o <<"-">>)
            \/ StartsWith(t, p \o <<".">>)
            \/ StartsWith(t, p \o <<" ">>)

HexChars == DigitChars \cup {"a","b","c","d","e","f"}

IsHexChar(c) == c \in HexChars

looks_like_id_or_hash(tok) ==
    LET letters == Cardinality({i \in 1..Len(tok) : IsAlpha(tok[i])})
        digits  == Cardinality({i \in 1..Len(tok) : IsDigit(tok[i])})
    IN  \/ Len(tok) >= 32 /\ \A i \in 1..Len(tok) : IsHexChar(LowerChar(tok[i]))
        \/ letters > 0 /\ digits >= letters * 3 /\ Len(tok) > 10

(***************************************************************************)
(* take_leading_handle_token_preserve, stage by stage                      *)
(***************************************************************************)
IsStartChar(c) == IsAlpha(c) \/ IsDigit(c) \/ c \in {"@", "_", "."}

\* step 1: skip decoration up to the first allowed start character
SkipDecoration(s) ==
    LET ok == {i \in 1..Len(s) : IsStartChar(s[i])}
    IN  IF ok = {} THEN <<>> ELSE SubSeq(s, SetMin(ok), Len(s))

\* mutant of DropLeadingAt: the first character is dropped whatever it is
DropLeadingAny(s) == IF s # <<>> THEN Tail(s) ELSE s

\* step 2: drop one leading "@"
DropLeadingAt(s) == IF StartsWith(s, <<"@">>) THEN Tail(s) ELSE s

IsHardSeparator(c) == c \in {"(", "[", "#"}

\* step 3: the part before the first hard separator, stripped of whitespace
IsolateCandidate(s) ==
    LET hard == {i \in 1..Len(s) : IsHardSeparator(s[i])}
        potential_handle == IF hard = {} THEN s ELSE SubSeq(s, 1, SetMin(hard) - 1)
    IN  Strip(potential_handle, WhitespaceChars)

\* steps 2 and 3 on a stem that is non-empty after step 1
Tokenizer(s) == IsolateCandidate(DropLeadingAt(s))

\* mutant of TrimTail: the tail pattern never matches
TrimTailNoMatch(tok) == tok

\* step 4: cut the numeric/date tail; a match with an empty group 1 is ignored
TrimTail(tok) ==
    LET cleaned_token == RE_NUMERIC_DATE_TAIL(tok)
    IN  IF cleaned_token # NONE /\ cleaned_token # <<>>
        THEN Strip(cleaned_token, BoundaryChars)
        ELSE tok

\* mutant of PrimaryValid: the hash/ID check is left out
PrimaryValidNoIdCheck(tok) ==
    /\ ~(Len(tok) < 1 \/ Len(tok) > 40)
    /\ has_letter(tok)
    /\ ~looks_like_camera_prefix(tok)

\* step 5: the validation of take_leading_handle_token_preserve.  The literal
\* one-character exception of line 148 guards a test has_letter already decides, and
\* that character is a letter for str.isalpha, so the rule is has_letter.
PrimaryValid(tok) ==
    /\ ~(Len(tok) < 1 \/ Len(tok) > 40)
    /\ has_letter(tok)
    /\ ~looks_like_camera_prefix(tok)
    /\ ~looks_like_id_or_hash(tok)

take_leading_handle_token_preserve(s) ==
    LET skipped == SkipDecoration(s)
    IN  IF skipped = <<>> THEN NONE
        ELSE LET tok == TrimTail(Tokenizer(skipped))
             IN  IF PrimaryValid(tok) THEN tok ELSE NONE

\* mutant of FallbackValid: the camera-prefix check is left out
FallbackValidNoCamera(candidate) == has_letter(candidate)

\* the validation both fallbacks apply to their candidate
FallbackValid(candidate) ==
    has_letter(candidate) /\ ~looks_like_camera_prefix(candidate)

\* the "@ anywhere" fallback: the handle it gives, or NONE
AtFallback(s) ==
    LET candidate == RE_AT_ANY(s)
    IN  IF candidate # NONE /\ FallbackValid(candidate) THEN candidate ELSE NONE

\* the trailing-handle fallback: the handle it gives, or NONE
TrailingFallback(s) ==
    LET candidate == RE_TRAILING(s)
    IN  IF candidate # NONE /\ FallbackValid(candidate) THEN candidate ELSE NONE

\* mutant of infer_handle: the trailing-handle fallback is tried before the "@" one
infer_handle_trailing_first(s, strict, trailing) ==
    LET tok == take_leading_handle_token_preserve(s)
    IN  IF tok # NONE THEN tok
        ELSE IF strict THEN NONE
        ELSE IF trailing /\ TrailingFallback(s) # NONE THEN TrailingFallback(s)
        ELSE IF AtFallback(s) # NONE THEN AtFallback(s)
        ELSE NONE

infer_handle(s, strict, trailing) ==
    LET tok == take_leading_handle_token_preserve(s)
    IN  IF tok # NONE THEN tok
        ELSE IF strict THEN NONE
        ELSE IF AtFallback(s) # NONE THEN AtFallback(s)
        ELSE IF trailing /\ TrailingFallback(s) # NONE THEN TrailingFallback(s)
        ELSE NONE

(***************************************************************************)
(* Input stems                                                             *)
(***************************************************************************)
\* the largest number of segments of a stem built from Segments
MaxSegs == 3

\* the longest digit run of a stem built as lead + name + separator + digits + rest
MaxDigits == 10

Segments ==
    { <<"a">>, <<"_">>, <<"_", "1">>, <<"@">>, <<" ">>, <<"(">>, <<".">>, <<"-">>,
      <<"1","2","3","4","5">>, <<"i","m","g">> }

RECURSIVE SegStems(_)
SegStems(n) ==
    IF n = 0 THEN {<<>>}
    ELSE LET shorter == SegStems(n - 1)
         IN  shorter \cup {s \o g : s \in shorter, g \in Segments}

\* digits of the stem "randomname_8281992017382", repeated
DigitSource ==
    <<"8","2","8","1","9","9","2","0","1","7","3","8","2",
      "8","2","8","1","9","9","2","0","1","7","3","8","2">>

DigitRun(n) == SubSeq(DigitSource, 1, n)

TailStems ==
    {lead \o name \o sep \o DigitRun(n) \o rest :
        lead \in {<<>>, <<"_">>, <<"@">>},
        name \in {<<"a">>, <<"I","M","G">>, <<"r","a","n","d","o","m","n","a","m","e">>},
        sep  \in {<<>>, <<"_">>, <<" ">>},
        n    \in 0..MaxDigits,
        rest \in {<<>>, <<"a">>}}

\* the stems of the documented examples (module docstring) and of the scenarios
ScenarioStems ==
    { <<"_","_","z","z","z","_","_","_","o","o","0","_","4","8","2","1">>,
      <<"j","o","h","n","_","2","0","2","3","0","8","1","5","_","1","2","3","4","5","6","7","8","9">>,
      <<"I","M","G","_","2","0","4","8">>,
      <<"@","c","o","o","l",".","g","u","y","9","9"," ","(","1",")">>,
      <<"r","h","-","a","b","_","0","0","5","8">>,
      <<"a","b","2","0","2","3","-","0","8","-","1","5","d">>,
      <<"a","1","2","3","4",".","1","2","3","4",".","1","2","3","4">>,
      <<"1","2"," ","a","b","c","-","2","0","2","3",".","0","8",".","1","5">>,
      <<"!","!"," ","1","2","3","4","_","a","b","c","(","1","2","3","4","5","6",")">>,
      <<"@","1","2","3","4","5","6","7","8","9","0","a">>,
      <<"a","\t","-","_","1">>,
      <<"I","M","G","_","1"," ","@","a","b","c">>,
      <<"I","M","G","_","1"," ","@","a","b","c"," ","d","e","f">>,
      <<"I","M","G","_","1"," ","a","b","c"," ","2","0","2","3","0","8","1","5">>,
      <<"I","M","G","_","1"," ","a","b","c","-","1","9","9","9",".","0","8",".","1","5">>,
      <<"@","(","a","b","c",")"," ","x">>,
      <<"a","1","2","3","4",".","1","2","3","4",".","1","2","3","4"," ","x">> }

Stems == SegStems(MaxSegs) \cup TailStems \cup ScenarioStems

(***************************************************************************)
(* infer_handle as a state machine                                         *)
(***************************************************************************)
OrgIdle ==
    /\ root = {}
    /\ folders = <<>>
    /\ created = {}
    /\ opts = <<>>
    /\ opc = "idle"
    /\ files = <<>>
    /\ todo = <<>>
    /\ groups = <<>>
    /\ ungrouped = <<>>
    /\ selected = <<>>
    /\ planned = <<>>
    /\ moved = {}
    /\ log = NONE

Init ==
    /\ stem \in Stems
    /\ strict_start \in BOOLEAN
    /\ allow_trailing \in BOOLEAN
    /\ pc = "START"
    /\ token = <<>>
    /\ result = NONE
    /\ stage = "none"
    /\ tried = <<>>
    /\ pass = 1
    /\ first = NONE
    /\ OrgIdle

\* lines 112-133: steps 1 to 3 of take_leading_handle_token_preserve
Tokenize ==
    /\ pc = "START"
    /\ tried' = Append(tried, "primary")
    /\ LET skipped == SkipDecoration(stem)
       IN  IF skipped = <<>>
           THEN pc' = "REJECTED" /\ token' = <<>>
           ELSE pc' = "TOKENIZED" /\ token' = Tokenizer(skipped)
    /\ UNCHANGED <<stem, strict_start, allow_trailing, result, stage, pass, first>>
    /\ UNCHANGED orgVars

\* lines 135-141: step 4
Trim ==
    /\ pc = "TOKENIZED"
    /\ token' = TrimTail(token)
    /\ pc' = "TRIMMED"
    /\ UNCHANGED <<stem, strict_start, allow_trailing, result, stage, tried, pass, first>>
    /\ UNCHANGED orgVars

\* lines 143-157 and 162-164: step 5, and the return of an accepted token
Validate ==
    /\ pc = "TRIMMED"
    /\ IF PrimaryValid(token)
       THEN result' = token /\ stage' = "primary" /\ pc' = "DONE"
       ELSE pc' = "REJECTED" /\ UNCHANGED <<result, stage>>
    /\ UNCHANGED <<stem, strict_start, allow_trailing, token, tried, pass, first>>
    /\ UNCHANGED orgVars

\* lines 166-167
StrictReturn ==
    /\ pc = "REJECTED"
    /\ strict_start
    /\ pc' = "DONE"
    /\ UNCHANGED <<stem, strict_start, allow_trailing, token, result, stage, tried,
                   pass, first>>
    /\ UNCHANGED orgVars

\* mutant of FallbackAt: the fallback does not look at strict_start
FallbackAtAnyMode ==
    /\ pc = "REJECTED"
    /\ tried' = Append(tried, "at")
    /\ token' = RE_AT_ANY(stem)
    /\ IF AtFallback(stem) # NONE
       THEN result' = AtFallback(stem) /\ stage' = "at" /\ pc' = "DONE"
       ELSE pc' = "AT_FAILED" /\ UNCHANGED <<result, stage>>
    /\ UNCHANGED <<stem, strict_start, allow_trailing, pass, first>>
    /\ UNCHANGED orgVars

\* lines 170-174
FallbackAt ==
    /\ pc = "REJECTED"
    /\ ~strict_start
    /\ tried' = Append(tried, "at")
    /\ token' = RE_AT_ANY(stem)
    /\ IF AtFallback(stem) # NONE
       THEN result' = AtFallback(stem) /\ stage' = "at" /\ pc' = "DONE"
       ELSE pc' = "AT_FAILED" /\ UNCHANGED <<result, stage>>
    /\ UNCHANGED <<stem, strict_start, allow_trailing, pass, first>>
    /\ UNCHANGED orgVars

\* lines 176-183 with allow_trailing set
FallbackTrailing ==
    /\ pc = "AT_FAILED"
    /\ allow_trailing
    /\ tried' = Append(tried, "trailing")
    /\ token' = RE_TRAILING(stem)
    /\ IF TrailingFallback(stem) # NONE
       THEN result' = TrailingFallback(stem) /\ stage' = "trailing"
       ELSE UNCHANGED <<result, stage>>
    /\ pc' = "DONE"
    /\ UNCHANGED <<stem, strict_start, allow_trailing, pass, first>>
    /\ UNCHANGED orgVars

\* lines 176 and 183 with allow_trailing clear
ReturnNone ==
    /\ pc = "AT_FAILED"
    /\ ~allow_trailing
    /\ pc' = "DONE"
    /\ UNCHANGED <<stem, strict_start, allow_trailing, token, result, stage, tried,
                   pass, first>>
    /\ UNCHANGED orgVars

\* a caller passes the handle it was given back to infer_handle, with the same flags
Reinfer ==
    /\ pc = "DONE"
    /\ pass = 1
    /\ result # NONE
    /\ stem' = result
    /\ first' = result
    /\ pass' = 2
    /\ pc' = "START"
    /\ token' = <<>>
    /\ result' = NONE
    /\ stage' = "none"
    /\ tried' = <<>>
    /\ UNCHANGED <<strict_start, allow_trailing>>
    /\ UNCHANGED orgVars

Next ==
    \/ Tokenize
    \/ Trim
    \/ Validate
    \/ StrictReturn
    \/ FallbackAt
    \/ FallbackTrailing
    \/ ReturnNone
    \/ Reinfer

Spec == Init /\ [][Next]_vars

(***************************************************************************)
(* organize                                                                *)
(***************************************************************************)
\* the largest number of entries of the root directory
MaxFiles == 3

\* the default of --ext (main)
AllowedExts ==
    { <<"j","p","g">>, <<"j","p","e","g">>, <<"p","n","g">>, <<"w","e","b","p">>,
      <<"h","e","i","c">>, <<"j","f","i","f">> }

File(st, ex) == [stem |-> st, ext |-> ex]

\* The directory entries a run may find, in the order sorted() gives them (by name:
\* "1_1a.jpg" < "IMG_1.jpg" < "a_1.JPG" < "a_1.jpg" < "a_2.jpg" < "a_3.txt" < "b_1.jpg")
Pool ==
    << File(<<"1","_","1","a">>, <<"j","p","g">>),
       File(<<"I","M","G","_","1">>, <<"j","p","g">>),
       File(<<"a","_","1">>, <<"J","P","G">>),
       File(<<"a","_","1">>, <<"j","p","g">>),
       File(<<"a","_","2">>, <<"j","p","g">>),
       File(<<"a","_","3">>, <<"t","x","t">>),
       File(<<"b","_","1">>, <<"j","p","g">> ) >>

\* sorted(entries): the entries of S in Pool order
RECURSIVE SortedFrom(_, _)
SortedFrom(S, i) ==
    IF i > Len(Pool) THEN <<>>
    ELSE (IF Pool[i] \in S THEN <<Pool[i]>> ELSE <<>>) \o SortedFrom(S, i + 1)

\* iter_image_files: the files of the directory whose lower-cased suffix is allowed
iter_image_files(dir) ==
    SelectSeq(SortedFrom(dir, 1), LAMBDA f : Lower(f.ext) \in AllowedExts)

\* str(i) for i >= 0
RECURSIVE Str(_)
Str(i) ==
    LET d == <<"0","1","2","3","4","5","6","7","8","9">>
    IN  IF i < 10 THEN <<d[i + 1]>> ELSE Str(i \div 10) \o <<d[(i % 10) + 1]>>

\* safe_move_or_copy: the name the file gets inside a folder holding `present`
RECURSIVE FreeName(_, _, _)
FreeName(f, present, i) ==
    LET target == File(f.stem \o <<"_","_">> \o Str(i), f.ext)
    IN  IF target \in present THEN FreeName(f, present, i + 1) ELSE target

safe_move_or_copy(f, present) ==
    IF f \in present THEN FreeName(f, present, 1) ELSE f

\* groups[handle].append(f) on the defaultdict groups
GroupAppend(g, h, f) ==
    IF \E i \in DOMAIN g : g[i].handle = h
    THEN [i \in DOMAIN g |->
            IF g[i].handle = h THEN [g[i] EXCEPT !.paths = Append(@, f)] ELSE g[i]]
    ELSE Append(g, [handle |-> h, paths |-> <<f>>])

\* mutant of IsSelected: min_count is not looked at
IsSelectedAnySize(paths, o) == Len(paths) >= 1 \/ o.include_singletons

\* line 228: the condition under which a group is selected
IsSelected(paths, o) == Len(paths) >= o.min_count \/ o.include_singletons

\* lines 232-238: the planned moves of the groups g, in order
RECURSIVE PlanMoves(_)
PlanMoves(g) ==
    IF g = <<>> THEN <<>>
    ELSE [i \in DOMAIN g[1].paths |-> [src |-> g[1].paths[i], handle |-> g[1].handle]]
         \o PlanMoves(Tail(g))

\* a folder that exists before the run and already holds two files named like
\* files of the pool
ExistingFolders ==
    { <<>>,
      [h \in {<<"a">>} |->
          {File(<<"a","_","1">>, <<"j","p","g">>),
           File(<<"a","_","1","_","_","1">>, <<"j","p","g">>)}] }

InitOrganize ==
    /\ root \in {S \in SUBSET Range(Pool) : Cardinality(S) <= MaxFiles}
    /\ folders \in ExistingFolders
    /\ created = {}
    /\ opts \in [min_count : {1, 2, 3}, include_singletons : BOOLEAN,
                 dry_run : BOOLEAN, log_path : BOOLEAN]
    /\ strict_start \in BOOLEAN
    /\ allow_trailing \in BOOLEAN
    /\ opc = "start"
    /\ files = <<>>
    /\ todo = <<>>
    /\ groups = <<>>
    /\ ungrouped = <<>>
    /\ selected = <<>>
    /\ planned = <<>>
    /\ moved = {}
    /\ log = NONE
    /\ stem = <<>>
    /\ pc = "idle"
    /\ token = <<>>
    /\ result = NONE
    /\ stage = "none"
    /\ tried = <<>>
    /\ pass = 1
    /\ first = NONE

\* line 217
Scan ==
    /\ opc = "start"
    /\ files' = iter_image_files(root)
    /\ todo' = iter_image_files(root)
    /\ opc' = "group"
    /\ UNCHANGED <<root, folders, created, opts, groups, ungrouped, selected, planned,
                   moved, log>>
    /\ UNCHANGED inferVars

\* lines 218-223, one iteration
GroupFile ==
    /\ opc = "group"
    /\ todo # <<>>
    /\ LET f == Head(todo)
           handle == infer_handle(f.stem, strict_start, allow_trailing)
       IN  IF handle # NONE
           THEN groups' = GroupAppend(groups, handle, f) /\ UNCHANGED ungrouped
           ELSE ungrouped' = Append(ungrouped, f) /\ UNCHANGED groups
    /\ todo' = Tail(todo)
    /\ UNCHANGED <<root, folders, created, opts, opc, files, selected, planned, moved, log>>
    /\ UNCHANGED inferVars

\* lines 225-238
Plan ==
    /\ opc = "group"
    /\ todo = <<>>
    /\ selected' = SelectSeq(groups, LAMBDA g : IsSelected(g.paths, opts))
    /\ planned' = PlanMoves(SelectSeq(groups, LAMBDA g : IsSelected(g.paths, opts)))
    /\ opc' = "execute"
    /\ UNCHANGED <<root, folders, created, opts, files, todo, groups, ungrouped, moved, log>>
    /\ UNCHANGED inferVars

\* lines 244-248, one iteration under --dry-run
DryRunMove ==
    /\ opc = "execute"
    /\ planned # <<>>
    /\ opts.dry_run
    /\ planned' = Tail(planned)
    /\ UNCHANGED <<root, folders, created, opts, opc, files, todo, groups, ungrouped,
                   selected, moved, log>>
    /\ UNCHANGED inferVars

\* lines 244 and 250-253, one iteration: mkdir and safe_move_or_copy
Move ==
    /\ opc = "execute"
    /\ planned # <<>>
    /\ ~opts.dry_run
    /\ LET src == Head(planned).src
           handle == Head(planned).handle
           present == IF handle \in DOMAIN folders THEN folders[handle] ELSE {}
           final_dst == safe_move_or_copy(src, present)
       IN  /\ created' = IF handle \in DOMAIN folders THEN created
                         ELSE created \cup {handle}
           /\ folders' = [h \in DOMAIN folders \cup {handle} |->
                             IF h = handle THEN present \cup {final_dst} ELSE folders[h]]
           /\ root' = root \ {src}
           /\ moved' = moved \cup {<<src, handle, final_dst>>}
    /\ planned' = Tail(planned)
    /\ UNCHANGED <<opts, opc, files, todo, groups, ungrouped, selected, log>>
    /\ UNCHANGED inferVars

\* lines 256-275: the CSV log (its rows are the sorted folder names) and the summary
Finish ==
    /\ opc = "execute"
    /\ planned = <<>>
    /\ log' = IF opts.log_path /\ selected # <<>>
              THEN {selected[i].handle : i \in DOMAIN selected}
              ELSE log
    /\ opc' = "done"
    /\ UNCHANGED <<root, folders, created, opts, files, todo, groups, ungrouped,
                   selected, planned, moved>>
    /\ UNCHANGED inferVars

NextOrganize ==
    \/ Scan
    \/ GroupFile
    \/ Plan
    \/ DryRunMove
    \/ Move
    \/ Finish

SpecOrganize == InitOrganize /\ [][NextOrganize]_vars

(***************************************************************************)
(* Properties                                                              *)
(***************************************************************************)
Returned == pc = "DONE" /\ result # NONE

\* s = H + "_" + n digits, where H begins with "_" or ".", is made of word characters
\* and ".", ends with a letter or digit, holds a letter and has no tail of its own
LeadingForm(s, n) ==
    /\ Len(s) >= n + 2
    /\ s[Len(s) - n] = "_"
    /\ \A i \in (Len(s) - n + 1)..Len(s) : IsDigit(s[i])
    /\ LET H == SubSeq(s, 1, Len(s) - n - 1)
       IN  /\ H[1] \in {"_", "."}
           /\ \A i \in 1..Len(H) : IsHandleChar(H[i])
           /\ IsAlpha(H[Len(H)]) \/ IsDigit(H[Len(H)])
           /\ has_letter(H)
           /\ RE_NUMERIC_DATE_TAIL(H) = NONE

\* C1: for a stem H + "_" + 1 to 4 digits, where H begins with "_" or ".", holds a
\* letter and has no tail of its own, infer_handle returns exactly H, its leading
\* run of "_" and "." intact.
C1_LeadingKept ==
    pc = "DONE" /\ pass = 1 =>
        \A n \in 1..4 :
            LeadingForm(stem, n) => result = SubSeq(stem, 1, Len(stem) - n - 1)

\* C2: the tail-trimming step never turns a non-empty candidate token into the empty
\* string: whenever the tokenizer produced a non-empty token, the token handed to
\* validation is non-empty.
C2_TrimNeverEmpties ==
    pc = "TRIMMED" /\ Tokenizer(SkipDecoration(stem)) # <<>> => token # <<>>

\* C3 as stated: if infer_handle returns a handle h for a stem, infer_handle of h with
\* the same flags returns h again.
C3_Idempotent ==
    pass = 2 /\ pc = "DONE" => result = first

\* h begins with a letter, a digit, "_" or ".", holds no hard separator and has no
\* whitespace at either end: the tokenizer finds nothing to remove
TokenizerKeeps(h) ==
    /\ h # <<>>
    /\ IsAlpha(h[1]) \/ IsDigit(h[1]) \/ h[1] \in {"_", "."}
    /\ \A i \in 1..Len(h) : h[i] \notin {"(", "[", "#"}
    /\ ~IsSpace(h[Len(h)])

\* RE_NUMERIC_DATE_TAIL finds no tail after a non-empty prefix of h
NoNumericTail(h) == RE_NUMERIC_DATE_TAIL(h) \in {NONE, <<>>}

\* C3 amended: if infer_handle returns a handle h that the tokenizer leaves as it is
\* (h begins with a letter, digit, "_" or ".", holds none of "(", "[", "#" and has no
\* whitespace at its ends), that has no numeric tail to trim and is not hash/ID-like,
\* then infer_handle of h with the same flags returns h again.
C3_IdempotentOnCleanHandles ==
    pass = 2 /\ pc = "DONE"
    /\ TokenizerKeeps(first) /\ NoNumericTail(first) /\ ~looks_like_id_or_hash(first)
    => result = first

\* C3 witness: a handle that went through the trimmer in pass 1 comes back unchanged
C3_Witness ==
    /\ pass = 2 /\ pc = "DONE"
    /\ TokenizerKeeps(first) /\ NoNumericTail(first) /\ ~looks_like_id_or_hash(first)
    /\ result = first
    /\ Len(first) > 1

\* the stem is letters, "_", and 9 or more digits
IsNameAndId(s) ==
    \E k \in 1..Len(s) :
        /\ \A i \in 1..k : IsAlpha(s[i])
        /\ Len(s) >= k + 10
        /\ s[k + 1] = "_"
        /\ \A i \in (k + 2)..Len(s) : IsDigit(s[i])

NameOf(s) == SubSeq(s, 1, (CHOOSE k \in 1..Len(s) : s[k + 1] = "_" /\ \A i \in 1..k : IsAlpha(s[i])))

\* C4 as stated: for a stem made of a letters-only name, "_" and 9 or more digits,
\* infer_handle returns no handle.
C4_NameAndIdRejected ==
    pc = "DONE" /\ IsNameAndId(stem) => result = NONE

\* C4 amended: for a stem made of a letters-only name (at most 40 letters, not 32 or
\* more hexadecimal letters), "_" and 9 or more digits, infer_handle returns the name
\* itself ("randomname" for "randomname_8281992017382"): the digits are trimmed before
\* the ID/hash check.  It returns no handle only when the name is a camera prefix.
C4_NameAndIdGivesName ==
    pc = "DONE" /\ IsNameAndId(stem)
    /\ Len(NameOf(stem)) <= 40
    /\ ~(Len(NameOf(stem)) >= 32
         /\ \A i \in 1..Len(NameOf(stem)) : IsHexChar(LowerChar(NameOf(stem)[i])))
    => result = IF Lower(NameOf(stem)) \in CAMERA_PREFIXES THEN NONE ELSE NameOf(stem)

\* C4 witness: the scenario's stem, with a digit run as long as the model allows,
\* has been inferred and gave the name
C4_Witness ==
    /\ pc = "DONE" /\ IsNameAndId(stem)
    /\ NameOf(stem) = <<"r","a","n","d","o","m","n","a","m","e">>
    /\ result = NameOf(stem)

\* C5 as stated: every handle infer_handle returns, through any stage, is accepted by
\* the validator: length 1 to 40, a letter, no camera-prefix match, not hash/ID-like.
C5_ReturnedIsValidated ==
    Returned =>
        /\ Len(result) >= 1 /\ Len(result) <= 40
        /\ has_letter(result)
        /\ ~looks_like_camera_prefix(result)
        /\ ~looks_like_id_or_hash(result)

\* C5 amended: every handle infer_handle returns has length 1 to 40, holds a letter and
\* is no camera-prefix match; a handle of the primary pipeline is also not hash/ID-like,
\* while the two fallbacks do not run the hash/ID check and may return such a handle.
C5_ReturnedIsValidatedByItsStage ==
    Returned =>
        /\ Len(result) >= 1 /\ Len(result) <= 40
        /\ has_letter(result)
        /\ ~looks_like_camera_prefix(result)
        /\ (stage = "primary" => ~looks_like_id_or_hash(result))

\* C5 witness: the "@" fallback returned a hash/ID-like handle
C5_Witness ==
    Returned /\ stage = "at" /\ looks_like_id_or_hash(result)

\* C6: a camera prefix is never returned as a handle: whatever the stem and the flags,
\* the returned value, stripped of "_" and "." and lower-cased, neither is a member of
\* CAMERA_PREFIXES nor starts with a member followed by "_", "-", "." or space.
C6_NoCameraPrefix ==
    Returned =>
        LET t == Lower(Strip(result, DotUnderscore))
        IN  \A p \in CAMERA_PREFIXES :
                /\ t # p
                /\ \A d \in {"_", "-", ".", " "} : ~StartsWith(t, p \o <<d>>)

\* C6 witness: a stem that begins with a camera prefix and digits got a handle from a
\* fallback
C6_Witness ==
    /\ Returned /\ pass = 1
    /\ looks_like_camera_prefix(stem)
    /\ stage \in {"at", "trailing"}

\* C7: the stages run in the order primary, "@" fallback, trailing fallback; the "@"
\* fallback only after the primary pipeline gave nothing and with strict_start off;
\* the trailing fallback only when also allow_trailing is on and the "@" fallback gave
\* nothing; the result is the first validated candidate in that order, and no handle
\* is returned only after every enabled stage failed.
C7_StageOrder ==
    /\ tried \in {<<>>, <<"primary">>, <<"primary", "at">>,
                  <<"primary", "at", "trailing">>}
    /\ (Len(tried) >= 2 =>
            ~strict_start /\ take_leading_handle_token_preserve(stem) = NONE)
    /\ (Len(tried) = 3 => allow_trailing /\ AtFallback(stem) = NONE)
    /\ (pc = "DONE" =>
            /\ stage = "primary" =>
                   tried = <<"primary">> /\ result # NONE
                   /\ result = take_leading_handle_token_preserve(stem)
            /\ stage = "at" =>
                   tried = <<"primary", "at">> /\ result # NONE
                   /\ result = AtFallback(stem)
            /\ stage = "trailing" =>
                   tried = <<"primary", "at", "trailing">> /\ result # NONE
                   /\ result = TrailingFallback(stem)
            /\ stage = "none" =>
                   /\ result = NONE
                   /\ take_leading_handle_token_preserve(stem) = NONE
                   /\ strict_start \/ AtFallback(stem) = NONE
                   /\ strict_start \/ ~allow_trailing \/ TrailingFallback(stem) = NONE
                   /\ Len(tried) = IF strict_start THEN 1
                                   ELSE IF allow_trailing THEN 3 ELSE 2)

\* C7 witness: all three stages ran and the last one supplied the handle
C7_Witness ==
    Returned /\ stage = "trailing" /\ tried = <<"primary", "at", "trailing">>

\* after position q - 1 the stem holds separator/bracket characters and then a run of
\* 6 or more digits or a date-like run that ends it (or, with `optional`, nothing more)
TailFollows(s, q, optional) ==
    \E r \in q..(Len(s) + 1) :
        /\ \A j \in q..(r - 1) : IsNoise(s[j])
        /\ \/ optional /\ r = Len(s) + 1
           \/ Len(s) - r + 1 >= 6 /\ \A j \in r..Len(s) : IsDigit(s[j])
           \/ (Len(s) + 1) \in DateEnds(s, r, FALSE)

\* h is a run of 3 to 30 word/"."/"_" characters of s with a tail after it
IsRunBeforeTail(s, h, optional) ==
    /\ Len(h) >= 3 /\ Len(h) <= 30
    /\ \A i \in 1..Len(h) : IsHandleChar(h[i])
    /\ \E i \in 1..Len(s) :
        /\ i + Len(h) - 1 <= Len(s)
        /\ SubSeq(s, i, i + Len(h) - 1) = h
        /\ TailFollows(s, i + Len(h), optional)

\* C8 as stated: a handle supplied by the trailing-token fallback is a run of 3 to 30
\* word/"."/"_" characters followed, through separator/bracket characters, by a run of
\* 6 or more digits or a date-like run that ends the stem; a run with no such tail
\* after it is not returned.
C8_TrailingNeedsTail ==
    Returned /\ stage = "trailing" => IsRunBeforeTail(stem, result, FALSE)

\* C8 amended: a handle supplied by the trailing-token fallback is a run of 3 to 30
\* word/"."/"_" characters followed by separator/bracket characters and then either
\* the end of the stem or a run of 6 or more digits or a date-like run that ends the
\* stem: the numeric/date tail is optional, so a run that ends the stem is returned too.
C8_TrailingBeforeOptionalTail ==
    Returned /\ stage = "trailing" => IsRunBeforeTail(stem, result, TRUE)

\* C8 witness: the trailing fallback returned a run that a date-like tail follows
C8_Witness ==
    /\ Returned /\ stage = "trailing"
    /\ IsRunBeforeTail(stem, result, FALSE)
    /\ IsDigit(stem[Len(stem)])

\* the entries the root directory held when organize started
Entries == root \cup {m[1] : m \in moved}

IsScanned(f) == Lower(f.ext) \in AllowedExts

HandleOf(f) == infer_handle(f.stem, strict_start, allow_trailing)

\* the handle of every entry
Handles == [f \in Entries |-> IF IsScanned(f) THEN HandleOf(f) ELSE NONE]

\* the entries that have a handle whose group holds min_count files (all the entries
\* that have a handle when include_singletons is set)
Movable ==
    LET h == Handles
    IN  {f \in Entries :
            /\ h[f] # NONE
            /\ \/ Cardinality({g \in Entries : h[g] = h[f]}) >= opts.min_count
               \/ opts.include_singletons}

\* the number of places of groups and ungrouped that hold f
Places(f) ==
    Cardinality({<<i, j>> \in (DOMAIN groups) \X (1..MaxFiles + 1) :
                    j \in DOMAIN groups[i].paths /\ groups[i].paths[j] = f})
    + Cardinality({j \in DOMAIN ungrouped : ungrouped[j] = f})

\* C9: organize moves a file only when infer_handle gave it a handle whose group holds
\* at least min_count files or include_singletons is set; every scanned file is in
\* exactly one group or in ungrouped; a file without handle and a file of a smaller
\* group stay where they are, and no folder is made for them.
\* (While nothing was moved and no folder made, the first three conjuncts hold of any
\* state, Entries being root; they are evaluated once something was moved or made.)
C9_MovesOnlySelected ==
    /\ (moved # {} \/ created # {} =>
            LET h == Handles
                movable == Movable
            IN  /\ \A m \in moved : m[1] \in movable /\ m[2] = h[m[1]]
                /\ \A f \in Entries : f \notin movable => f \in root
                /\ \A d \in created : \E f \in movable : h[f] = d)
    /\ (opc \in {"execute", "done"} =>
            \A f \in Entries : Places(f) = IF IsScanned(f) THEN 1 ELSE 0)

\* C9 witness: a run moved the files of one group and left in place a file whose
\* group is too small
C9_Witness ==
    /\ opc = "done"
    /\ moved # {}
    /\ \E f \in root : Handles[f] # NONE /\ f \notin Movable

\* C10: the flags only add results: with strict_start the result does not depend on
\* allow_trailing; a handle returned with strict_start is returned for every other
\* combination of the flags; a handle returned without allow_trailing is returned
\* unchanged with it.
C10_FlagsOnlyAdd ==
    pc = "DONE" =>
        /\ strict_start => result = infer_handle(stem, TRUE, ~allow_trailing)
        /\ strict_start /\ result # NONE =>
               \A s \in BOOLEAN, t \in BOOLEAN : infer_handle(stem, s, t) = result
        /\ ~allow_trailing /\ result # NONE =>
               infer_handle(stem, strict_start, TRUE) = result

\* C10 witness: the "@" fallback returned a handle without allow_trailing, for a stem
\* in which the trailing fallback finds another run
C10_Witness ==
    /\ Returned /\ stage = "at" /\ ~allow_trailing
    /\ RE_TRAILING(stem) \notin {NONE, result}

====
